---- MODULE Spec2Model ----
(***************************************************************************)
(* The rate-limited DM outreach scheduler of CatharsisXAgentDMs:           *)
(*   - the scheduler entry point (src/unnamed/part_001): attemptDM, the    *)
(*     /send-dm and /reset handlers, runScheduler, saveState/loadState;    *)
(*   - the outreach executor (src/plugins/dmPlugin/dmManager.ts,           *)
(*     findAndSendDM with loadSentDMs/saveSentDMs) and the send_dm         *)
(*     function of src/plugins/dmPlugin/dmPlugin.ts;                       *)
(*   - the batch campaigns (findAndDMCommenters of dmManager.ts:159-364    *)
(*     and of src/unnamed/part_002);                                       *)
(*   - the provider-cap tracker (src/plugins/rateLimitHandler.ts).         *)
(*                                                                         *)
(* Node runs one callback at a time: a callback runs until its next await  *)
(* on real I/O.  `running` names the attempt whose synchronous section is  *)
(* executing; while it is set no other callback and no clock step occurs.  *)
(* Times are epoch milliseconds as returned by Date.now().                 *)
(***************************************************************************)
EXTENDS Integers, FiniteSets, Sequences, TLC

VARIABLES
    now,                  \* Date.now()
    lastDMTime,           \* part_001:9
    dailyDMs,             \* part_001:10
    lastResetDate,        \* part_001:11
    stateFile,            \* contents of STATE_FILE (part_001:13)
    sentDMs,              \* dmManager.ts:11, recipient id -> contact instant (0: absent)
    sentFile,             \* contents of SENT_DMS_FILE (dmManager.ts:9)
    att,                  \* per trigger: position of its attemptDM() call
    running,              \* whose synchronous section is executing
    timerDue,             \* when the pending setTimeout(runScheduler) fires
    monthlyCapExceeded,   \* rateLimitHandler.ts:4
    monthlyCapResetTime,  \* rateLimitHandler.ts:5
    dailyReadAttempts,    \* rateLimitHandler.ts:6
    rlLastResetDate,      \* rateLimitHandler.ts:7
    maxDailyReadAttempts, \* rateLimitHandler.ts:8
    ev,                   \* history: the operation that made the last step
    sendCount,            \* history: successful external sends per recipient
    resetDone,            \* history: dates whose lazy reset this process has run
    capPending,           \* history: a provider cap was recorded and not yet lifted
    capT,                 \* history: the reset time of that cap
    advances,             \* history: clock steps taken
    restarts,             \* history: process restarts
    writeFailures,        \* history: failed file writes
    variant,              \* which batch campaign module is deployed
    campaignSentDMs,      \* dmManager.ts:171 / part_002:12, sentDMs of the batch campaign
    campaignDailyDMs,     \* dmManager.ts:172 / part_002:13, its dailyDMs
    lastDMResetDate,      \* dmManager.ts:173 / part_002:14
    campaignFile,         \* contents of its SENT_DMS_FILE (dmManager.ts:167 / part_002:8)
    batch                 \* per caller: position of its findAndDMCommenters() call

schedVars == <<lastDMTime, dailyDMs, lastResetDate, stateFile, sentDMs, sentFile,
               att, running, timerDue, sendCount, resetDone, writeFailures>>
attemptVars == <<lastDMTime, dailyDMs, lastResetDate, stateFile, sentDMs, sentFile,
                 att, running, timerDue, sendCount, resetDone>>
rlVars == <<monthlyCapExceeded, monthlyCapResetTime, dailyReadAttempts,
            rlLastResetDate, maxDailyReadAttempts, capPending, capT>>
batchVars == <<variant, campaignSentDMs, campaignDailyDMs, lastDMResetDate, campaignFile,
               batch>>
vars == <<now, schedVars, rlVars, batchVars, ev, advances, restarts>>

----------------------------------------------------------------------------
(* Program constants *)

DMS_PER_DAY_TARGET == 30
DM_INTERVAL == 5 * 60 * 1000
TICK_PERIOD == 5 * 60 * 1000
MIN_DM_LENGTH == 10
MAX_DM_LENGTH == 10000
DEFAULT_MAX_DAILY_READS == 50
MAX_DMS_PER_DAY == 30

(* Model bounds *)

NumUsers == 1          \* recipients in target_accounts.json
MaxAdvance == 2        \* clock steps
MaxFaults == 1         \* failed file writes plus process restarts
NumCommenters == 2     \* accounts that reply to or mention a target
MaxReplies == 2        \* entries in one page of replies or mentions

DayMs == 24 * 60 * 60 * 1000
TimeStep == DM_INTERVAL \div 2
\* The process starts shortly before midnight UTC.
StartTime == DayMs - (MaxAdvance - 1) * TimeStep

Users == 1..NumUsers
NoUser == 0
\* The two callers of attemptDM(): runScheduler and the /send-dm handler.
Timer == "runScheduler"
Manual == "/send-dm"
Triggers == {Timer, Manual}
\* values of `running` besides a trigger: no callback, or main() itself
Nobody == "none"
Main == "main"

\* new Date().toISOString().split('T')[0]: the UTC calendar date.  Two such
\* strings are equal exactly when the day numbers are; '' is NoDate.
NoDate == 0 - 1
DateOf(t) == t \div DayMs

\* timerDue when no setTimeout(runScheduler) is pending
NoTimer == 0 - 1

----------------------------------------------------------------------------
(* Files *)

MissingState == [kind |-> "missing", lastDMTime |-> 0, dailyDMs |-> 0, lastResetDate |-> NoDate]
OkState(t, d, r) == [kind |-> "ok", lastDMTime |-> t, dailyDMs |-> d, lastResetDate |-> r]

\* A file whose write was cut short holds a prefix of the JSON text: it
\* exists and does not parse.
CorruptState(m) ==
    [kind |-> "corrupt", lastDMTime |-> m.lastDMTime, dailyDMs |-> m.dailyDMs,
     lastResetDate |-> m.lastResetDate]

NoSent == [u \in Users |-> 0]
MissingSent == [kind |-> "missing", map |-> NoSent]
OkSent(m) == [kind |-> "ok", map |-> m]
CorruptSent(m) == [kind |-> "corrupt", map |-> m]

Mem(t, d, r) == [lastDMTime |-> t, dailyDMs |-> d, lastResetDate |-> r]

\* fs.writeFileSync inside try/catch: a failed write is logged and the file
\* keeps its previous contents.
saveState(file, m, wok) ==
    IF wok THEN OkState(m.lastDMTime, m.dailyDMs, m.lastResetDate) ELSE file

\* Mutant: whatever the file holds is taken over, also from a file that
\* does not parse.
loadState_NoCatch(file) ==
    IF file.kind = "missing"
    THEN Mem(0, 0, NoDate)
    ELSE Mem(file.lastDMTime, file.dailyDMs, file.lastResetDate)

\* Applied to the module's initial values (0, 0, ''): a missing file or a
\* parse error leaves them as they are.
loadState(file) ==
    IF file.kind = "ok"
    THEN Mem(file.lastDMTime, file.dailyDMs, file.lastResetDate)
    ELSE Mem(0, 0, NoDate)

saveSentDMs(file, m, wok) == IF wok THEN OkSent(m) ELSE file

\* The pair <<sentDMs, file>> after loadSentDMs().
loadSentDMs(file, m, wok) ==
    CASE file.kind = "ok" -> <<file.map, file>>
      [] file.kind = "missing" -> <<m, saveSentDMs(file, m, wok)>>
      [] OTHER -> <<NoSent, file>>

----------------------------------------------------------------------------
(* RateLimitHandler (src/plugins/rateLimitHandler.ts): state and methods *)

\* Date.now() / 1000, floored
SecOf(t) == t \div 1000

RL(cap, resetTime, reads, date, max) ==
    [monthlyCapExceeded |-> cap, monthlyCapResetTime |-> resetTime,
     dailyReadAttempts |-> reads, lastResetDate |-> date, maxDailyReadAttempts |-> max]

rlState == RL(monthlyCapExceeded, monthlyCapResetTime, dailyReadAttempts,
              rlLastResetDate, maxDailyReadAttempts)

rlResetDailyCounterIfNeeded(h, today) ==
    IF h.lastResetDate # today
    THEN [h EXCEPT !.dailyReadAttempts = 0, !.lastResetDate = today]
    ELSE h

\* Field initialisers and the private constructor, run by getInstance().
rlConstruct(today) ==
    rlResetDailyCounterIfNeeded(RL(FALSE, 0, 0, NoDate, DEFAULT_MAX_DAILY_READS), today)

\* Errors of the Twitter client: code, data.title, whether data.detail
\* includes 'Monthly product cap', whether data.type is the usage-capped
\* problem type, and rateLimit.reset (0: absent).
TwitterError(code, title, monthly, capped, reset) ==
    [code |-> code, title |-> title, monthly |-> monthly, capped |-> capped, reset |-> reset]

parseTwitterError(e) ==
    IF e.code = 429 /\ e.title = "UsageCapExceeded" /\ e.monthly /\ e.capped
    THEN [isMonthlyCapExceeded |-> TRUE, resetTime |-> e.reset]
    ELSE [isMonthlyCapExceeded |-> FALSE, resetTime |-> 0]

handleTwitterError(h, e) ==
    LET p == parseTwitterError(e)
    IN  IF p.isMonthlyCapExceeded
        THEN [h EXCEPT !.monthlyCapExceeded = TRUE, !.monthlyCapResetTime = p.resetTime]
        ELSE h

\* <<answer, handler state>> of canMakeReadRequest() at time t.
canMakeReadRequest(h, t) ==
    LET h1 == rlResetDailyCounterIfNeeded(h, DateOf(t))
        blocked == h1.monthlyCapExceeded /\ SecOf(t) < h1.monthlyCapResetTime
        h2 == IF h1.monthlyCapExceeded /\ ~blocked
              THEN [h1 EXCEPT !.monthlyCapExceeded = FALSE, !.monthlyCapResetTime = 0]
              ELSE h1
    IN  IF blocked THEN <<"MonthlyCapExceeded", h1>>
        ELSE IF h2.dailyReadAttempts >= h2.maxDailyReadAttempts THEN <<"DailyLimit", h2>>
        ELSE <<"Allowed", h2>>

----------------------------------------------------------------------------
(* attemptDM: the synchronous prefix *)

\* Mutant: the count is zeroed but the date it is valid for is not updated.
resetDailyCounterIfNeeded_KeepsDate(m, today) ==
    IF m.lastResetDate # today THEN [m EXCEPT !.dailyDMs = 0] ELSE m

resetDailyCounterIfNeeded(m, today) ==
    IF m.lastResetDate # today
    THEN [m EXCEPT !.dailyDMs = 0, !.lastResetDate = today]
    ELSE m

\* Mutant: the cap comparison is off by one.
attemptDMCheck_CapOffByOne(t, last, count) ==
    IF t - last < DM_INTERVAL THEN "TooSoon"
    ELSE IF count > DMS_PER_DAY_TARGET THEN "DailyCapReached"
    ELSE "Allowed"

\* Lines 65-76 of attemptDM; t is the `now` read on line 60 and `last`
\* the lastDMTime read on line 61.
attemptDMCheck(t, last, count) ==
    IF t - last < DM_INTERVAL THEN "TooSoon"
    ELSE IF count >= DMS_PER_DAY_TARGET THEN "DailyCapReached"
    ELSE "Allowed"

\* Math.round((DM_INTERVAL - timeSinceLastDM) / 60000) of part_001:66, for
\* a positive remainder: halves round up.
minutesRemaining(t, last) == (2 * (DM_INTERVAL - (t - last)) + 60000) \div (2 * 60000)

\* Mutant: the checks are evaluated before the lazy reset.
attemptDMPrefix_CheckBeforeReset(m, t) ==
    <<attemptDMCheck(t, m.lastDMTime, m.dailyDMs), resetDailyCounterIfNeeded(m, DateOf(t))>>

\* <<result of the checks, module variables>> after lines 60-76 of
\* attemptDM at time t: the lazy reset runs before both checks.
attemptDMPrefix(m, t) ==
    LET m1 == resetDailyCounterIfNeeded(m, DateOf(t))
    IN  <<attemptDMCheck(t, m.lastDMTime, m1.dailyDMs), m1>>

\* An attemptDM() call: where it stands, the `now` it read on line 60, the
\* recipient found and how findAndSendDM ended.
Idle == [pc |-> "idle", started |-> 0, user |-> NoUser, outcome |-> "none"]

\* info: for attemptDM the count the lazy reset discarded (NoInfo: no
\* reset), for recordAction the time the attempt started, for reset the
\* count it cleared, for generateDone the length of the generated text.
NoInfo == 0 - 1
\* retry: for an attemptDM that answered TooSoon, the minutes it logs.
Ev(op, by, result, wok, info) ==
    [op |-> op, by |-> by, result |-> result, wok |-> wok, info |-> info, retry |-> NoInfo]

CanFail(wok) == wok \/ writeFailures + restarts < MaxFaults
Failed(wok) == IF wok THEN writeFailures ELSE writeFailures + 1

\* Mutant: the tick re-arms itself when it fires, as setInterval would.
TimerAtStart_Interval(a, due) == IF a = Timer THEN now + TICK_PERIOD ELSE due

\* The timer that fired is spent: while runScheduler awaits attemptDM() no
\* timer is pending (part_001:138).
TimerAtStart(a, due) == IF a = Timer THEN NoTimer ELSE due

\* Mutant: the timer is not re-armed.
Rearm_Never(a) == timerDue

\* After attemptDM() of the timer returns, runScheduler re-arms the timer
\* (part_001:143).
Rearm(a) == IF a = Timer THEN now + TICK_PERIOD ELSE timerDue

AttemptDM(a) ==
    /\ (a = Manual => att[a].pc = "idle")
    /\ \/ running = Nobody /\ (a = Timer => timerDue # NoTimer /\ now >= timerDue)
       \/ running = Main /\ a = Timer
    /\ \E wok \in BOOLEAN :
        LET today == DateOf(now)
            m0 == Mem(lastDMTime, dailyDMs, lastResetDate)
            r == attemptDMPrefix(m0, now)
            res == r[1]
            m == r[2]
            rolled == m # m0
        IN  /\ (~rolled => wok)
            /\ CanFail(wok)
            /\ dailyDMs' = m.dailyDMs
            /\ lastResetDate' = m.lastResetDate
            /\ stateFile' = IF rolled THEN saveState(stateFile, m, wok) ELSE stateFile
            /\ writeFailures' = Failed(wok)
            /\ resetDone' = IF rolled THEN resetDone \cup {today} ELSE resetDone
            /\ ev' = [Ev("attemptDM", a, res, wok, IF rolled THEN dailyDMs ELSE NoInfo)
                        EXCEPT !.retry = IF res = "TooSoon"
                                         THEN minutesRemaining(now, lastDMTime)
                                         ELSE NoInfo]
            /\ IF res = "Allowed"
               THEN /\ att' = [att EXCEPT ![a] = [Idle EXCEPT !.pc = "campaign", !.started = now]]
                    /\ running' = a
                    /\ timerDue' = TimerAtStart(a, timerDue)
               ELSE /\ att' = att
                    /\ running' = Nobody
                    /\ timerDue' = Rearm(a)
    /\ UNCHANGED <<batchVars, now, lastDMTime, sentDMs, sentFile, sendCount, rlVars, advances, restarts>>

----------------------------------------------------------------------------
(* dmManager.startDMCampaign(0): loadSentDMs, then findAndSendDM up to its *)
(* first await on the network                                              *)

\* find_target_user picks a random entry of the target list (NoUser: the
\* list is empty or unreadable and the function answers Failed).
StartDMCampaign(a) ==
    /\ running = a
    /\ att[a].pc = "campaign"
    /\ \E u \in Users \cup {NoUser}, wok \in BOOLEAN :
        LET loaded == loadSentDMs(sentFile, sentDMs, wok)
        IN  /\ (sentFile.kind # "missing" => wok)
            /\ CanFail(wok)
            /\ sentDMs' = loaded[1]
            /\ sentFile' = loaded[2]
            /\ writeFailures' = Failed(wok)
            /\ ev' = Ev("startDMCampaign", a, "", wok, NoInfo)
            /\ IF u = NoUser
               THEN /\ att' = [att EXCEPT ![a].pc = "record", ![a].outcome = "Skipped"]
                    /\ running' = a
               ELSE IF loaded[1][u] # 0
               THEN /\ att' = [att EXCEPT ![a].pc = "record", ![a].user = u, ![a].outcome = "Skipped"]
                    /\ running' = a
               ELSE /\ att' = [att EXCEPT ![a].pc = "generate", ![a].user = u]
                    /\ running' = Nobody
    /\ UNCHANGED <<batchVars, now, lastDMTime, dailyDMs, lastResetDate, stateFile, timerDue,
                   sendCount, resetDone, rlVars, advances, restarts>>

----------------------------------------------------------------------------
(* findAndSendDM after the OpenAI call returns (dmManager.ts:97-118) and   *)
(* the synchronous part of send_dm (dmPlugin.ts:90-118)                    *)

\* Lengths of response.choices[0].message.content?.trim() || ''
TextLens == {0, MIN_DM_LENGTH - 1, MIN_DM_LENGTH, MAX_DM_LENGTH, MAX_DM_LENGTH + 1}

\* dmManager.ts:103
dmTextAccepted(len) == ~(len < MIN_DM_LENGTH)

\* Mutant: the upper limit of the length is not tested.
sendDMAccepts_NoUpperBound(len) == len # 0 /\ ~(len < MIN_DM_LENGTH)

\* dmPlugin.ts:101-113; a text of length 0 is falsy
sendDMAccepts(len) == len # 0 /\ ~(len < MIN_DM_LENGTH \/ len > MAX_DM_LENGTH)

GenerateDone(a) ==
    /\ running = Nobody
    /\ att[a].pc = "generate"
    /\ \E threw \in BOOLEAN, len \in TextLens :
        /\ (threw => len = 0)
        /\ ev' = Ev("generateDone", a, IF threw THEN "GenerationFailed" ELSE "", TRUE, len)
        /\ IF threw
           THEN /\ att' = [att EXCEPT ![a].pc = "record", ![a].outcome = "Failed"]
                /\ running' = a
           ELSE IF ~dmTextAccepted(len)
           THEN /\ att' = [att EXCEPT ![a].pc = "record", ![a].outcome = "Skipped"]
                /\ running' = a
           ELSE IF ~sendDMAccepts(len)
           THEN /\ att' = [att EXCEPT ![a].pc = "record", ![a].outcome = "Failed"]
                /\ running' = a
           ELSE /\ att' = [att EXCEPT ![a].pc = "send"]
                /\ running' = Nobody
    /\ UNCHANGED <<batchVars, now, lastDMTime, dailyDMs, lastResetDate, stateFile, sentDMs, sentFile,
                   timerDue, sendCount, resetDone, writeFailures, rlVars,
                   advances, restarts>>

----------------------------------------------------------------------------
(* send_dm after sendDmToParticipant returns (dmPlugin.ts:118-141) and     *)
(* findAndSendDM's handling of the result (dmManager.ts:115-123)           *)

SendResults == {"data", "nodata", "throw"}

\* What sendDmToParticipant can throw: the provider's usage-cap error, whose
\* rateLimit.reset lies ahead, or any other API error.
SendErrors(t) ==
    {TwitterError(429, "UsageCapExceeded", TRUE, TRUE, SecOf(t) + TimeStep \div 1000),
     TwitterError(403, "Forbidden", FALSE, FALSE, 0)}

\* The catch of send_dm (dmPlugin.ts:135-141) turns every error into a Failed
\* response carrying error.message; the error is not handed to
\* RateLimitHandler.  The history records which error it was.
SendDone(a) ==
    /\ running = Nobody
    /\ att[a].pc = "send"
    /\ \E r \in SendResults, e \in SendErrors(now), wok \in BOOLEAN :
        LET u == att[a].user
            m == [sentDMs EXCEPT ![u] = now]
            p == parseTwitterError(e)
            cap == r = "throw" /\ p.isMonthlyCapExceeded
        IN  /\ (r # "data" => wok)
            /\ (r # "throw" => ~p.isMonthlyCapExceeded)
            /\ CanFail(wok)
            /\ writeFailures' = Failed(wok)
            /\ ev' = Ev("sendDone", a, IF cap THEN "UsageCapExceeded" ELSE r, wok,
                        IF cap THEN p.resetTime ELSE NoInfo)
            /\ running' = a
            /\ IF r = "data"
               THEN /\ sentDMs' = m
                    /\ sentFile' = saveSentDMs(sentFile, m, wok)
                    /\ sendCount' = [sendCount EXCEPT ![u] = @ + 1]
                    /\ att' = [att EXCEPT ![a].pc = "record", ![a].outcome = "Sent"]
               ELSE /\ UNCHANGED <<sentDMs, sentFile, sendCount>>
                    /\ att' = [att EXCEPT ![a].pc = "record", ![a].outcome = "Failed"]
    /\ UNCHANGED <<batchVars, now, lastDMTime, dailyDMs, lastResetDate, stateFile, timerDue,
                   resetDone, rlVars, advances, restarts>>

----------------------------------------------------------------------------
(* attemptDM after `await dmManager.startDMCampaign(0)` (part_001:80-83).  *)
(* findAndSendDM catches every error and returns, so the promise always    *)
(* resolves and the catch on line 84 is never entered.                     *)

recordAction(m, t) == [m EXCEPT !.dailyDMs = @ + 1, !.lastDMTime = t]

RecordAction(a) ==
    /\ running = a
    /\ att[a].pc = "record"
    /\ \E wok \in BOOLEAN :
        LET m == recordAction(Mem(lastDMTime, dailyDMs, lastResetDate), now)
        IN  /\ CanFail(wok)
            /\ writeFailures' = Failed(wok)
            /\ dailyDMs' = m.dailyDMs
            /\ lastDMTime' = m.lastDMTime
            /\ lastResetDate' = m.lastResetDate
            /\ stateFile' = saveState(stateFile, m, wok)
            /\ ev' = Ev("recordAction", a, att[a].outcome, wok, att[a].started)
    /\ att' = [att EXCEPT ![a] = Idle]
    /\ running' = Nobody
    /\ timerDue' = Rearm(a)
    /\ UNCHANGED <<batchVars, now, sentDMs, sentFile, sendCount, resetDone, rlVars, advances, restarts>>

----------------------------------------------------------------------------
(* The /reset handler (part_001:124-130) *)

\* Mutant: the state is saved without the counter having been cleared.
resetCounter_KeepsCount(m) == m

resetCounter(m) == [m EXCEPT !.dailyDMs = 0]

Reset ==
    /\ running = Nobody
    /\ \E wok \in BOOLEAN :
        LET m == resetCounter(Mem(lastDMTime, dailyDMs, lastResetDate))
        IN  /\ CanFail(wok)
            /\ writeFailures' = Failed(wok)
            /\ dailyDMs' = m.dailyDMs
            /\ stateFile' = saveState(stateFile, m, wok)
            /\ ev' = Ev("reset", Nobody, "", wok, dailyDMs)
    /\ UNCHANGED <<batchVars, now, lastDMTime, lastResetDate, sentDMs, sentFile, att, running, timerDue,
                   sendCount, resetDone, rlVars, advances, restarts>>

----------------------------------------------------------------------------
(* The clock, and a restart of the process (main, part_001:146-176) *)

Advance ==
    /\ running = Nobody
    /\ advances < MaxAdvance
    /\ now' = now + TimeStep
    /\ advances' = advances + 1
    /\ ev' = Ev("advance", Nobody, "", TRUE, NoInfo)
    /\ UNCHANGED <<batchVars, schedVars, rlVars, restarts>>

\* A new process: the module-level variables get their initial values,
\* loadState() reads the file sf, open attempts and the pending timer are
\* gone and main() calls runScheduler().
Boot(sf) ==
    /\ restarts' = restarts + 1
    /\ LET m == loadState(sf)
       IN  /\ lastDMTime' = m.lastDMTime
           /\ dailyDMs' = m.dailyDMs
           /\ lastResetDate' = m.lastResetDate
    /\ sentDMs' = NoSent
    /\ att' = [a \in Triggers |-> Idle]
    /\ running' = Main
    /\ timerDue' = NoTimer
    /\ resetDone' = {}

\* The process stops, between callbacks or inside one, and is started again.
Restart ==
    /\ writeFailures + restarts < MaxFaults
    /\ Boot(stateFile)
    /\ ev' = Ev("restart", Main, "", TRUE, NoInfo)
    /\ UNCHANGED <<batchVars, now, stateFile, sentFile, sendCount, writeFailures, rlVars,
                   advances>>

\* The process stops inside fs.writeFileSync, which truncates the file and
\* then writes it: in saveState() of part_001:82, or in saveSentDMs() of
\* dmManager.ts:123 after the DM has gone out.  The file is left cut short.
StopInWrite ==
    /\ writeFailures + restarts < MaxFaults
    /\ \/ \E a \in Triggers :
            /\ running = a
            /\ att[a].pc = "record"
            /\ stateFile' = CorruptState(recordAction(Mem(lastDMTime, dailyDMs, lastResetDate),
                                                       now))
            /\ Boot(stateFile')
            /\ ev' = Ev("restart", Main, "tornStateFile", TRUE, NoInfo)
            /\ UNCHANGED <<sentFile, sendCount>>
       \/ \E a \in Triggers :
            /\ running = Nobody
            /\ att[a].pc = "send"
            /\ sentFile' = CorruptSent([sentDMs EXCEPT ![att[a].user] = now])
            /\ sendCount' = [sendCount EXCEPT ![att[a].user] = @ + 1]
            /\ Boot(stateFile)
            /\ ev' = Ev("restart", Main, "tornSentFile", TRUE, NoInfo)
            /\ UNCHANGED stateFile
    /\ UNCHANGED <<batchVars, now, writeFailures, rlVars, advances>>

----------------------------------------------------------------------------
(* RateLimitHandler (src/plugins/rateLimitHandler.ts): callers *)

SetRL(h) ==
    /\ monthlyCapExceeded' = h.monthlyCapExceeded
    /\ monthlyCapResetTime' = h.monthlyCapResetTime
    /\ dailyReadAttempts' = h.dailyReadAttempts
    /\ rlLastResetDate' = h.lastResetDate
    /\ maxDailyReadAttempts' = h.maxDailyReadAttempts

\* The provider's reset time lies ahead of the failing call.
CapDelays == {TimeStep \div 1000, 2 * (TimeStep \div 1000)}

TwitterErrors(t) ==
    {TwitterError(429, "UsageCapExceeded", TRUE, TRUE, SecOf(t) + d) : d \in CapDelays}
    \cup {TwitterError(429, "UsageCapExceeded", TRUE, TRUE, 0),
          TwitterError(429, "Too Many Requests", FALSE, FALSE, SecOf(t) + TimeStep \div 1000),
          TwitterError(403, "Forbidden", FALSE, FALSE, 0)}

HandleTwitterError ==
    /\ \E e \in TwitterErrors(now) :
        LET p == parseTwitterError(e)
        IN  /\ SetRL(handleTwitterError(rlState, e))
            /\ capPending' = (p.isMonthlyCapExceeded \/ capPending)
            /\ capT' = IF p.isMonthlyCapExceeded THEN p.resetTime ELSE capT
            /\ ev' = Ev("handleTwitterError", Nobody,
                        IF p.isMonthlyCapExceeded THEN "cap" ELSE "other", TRUE, NoInfo)
    /\ UNCHANGED <<batchVars, now, schedVars, advances, restarts>>

CanMakeReadRequest ==
    /\ LET r == canMakeReadRequest(rlState, now)
       IN  /\ SetRL(r[2])
           /\ ev' = Ev("canMakeReadRequest", Nobody, r[1], TRUE, NoInfo)
    /\ capPending' = (capPending /\ SecOf(now) < capT)
    /\ UNCHANGED <<batchVars, now, schedVars, capT, advances, restarts>>

IncrementReadAttempts ==
    /\ dailyReadAttempts <= maxDailyReadAttempts
    /\ dailyReadAttempts' = dailyReadAttempts + 1
    /\ ev' = Ev("incrementReadAttempts", Nobody, "", TRUE, NoInfo)
    /\ UNCHANGED <<batchVars, now, schedVars, monthlyCapExceeded, monthlyCapResetTime, rlLastResetDate,
                   maxDailyReadAttempts, capPending, capT, advances, restarts>>

GetStatus ==
    /\ ev' = Ev("getStatus", Nobody, IF monthlyCapExceeded THEN "capped" ELSE "open", TRUE,
                NoInfo)
    /\ UNCHANGED <<batchVars, now, schedVars, rlVars, advances, restarts>>

ReadLimits == {2, DEFAULT_MAX_DAILY_READS}

SetMaxDailyReadAttempts ==
    /\ \E max \in ReadLimits : maxDailyReadAttempts' = max
    /\ ev' = Ev("setMaxDailyReadAttempts", Nobody, "", TRUE, NoInfo)
    /\ UNCHANGED <<batchVars, now, schedVars, monthlyCapExceeded, monthlyCapResetTime, dailyReadAttempts,
                   rlLastResetDate, capPending, capT, advances, restarts>>

\* A new process: loadState() reads STATE_FILE and the singleton is
\* constructed afresh; the handler has no store to read.
RestartRL ==
    /\ writeFailures + restarts < MaxFaults
    /\ restarts' = restarts + 1
    /\ LET m == loadState(stateFile)
       IN  /\ lastDMTime' = m.lastDMTime
           /\ dailyDMs' = m.dailyDMs
           /\ lastResetDate' = m.lastResetDate
    /\ SetRL(rlConstruct(DateOf(now)))
    /\ ev' = Ev("restart", Main, "", TRUE, NoInfo)
    /\ UNCHANGED <<batchVars, now, stateFile, sentDMs, sentFile, att, running, timerDue, sendCount,
                   resetDone, writeFailures, capPending, capT, advances>>

----------------------------------------------------------------------------
(* The batch campaigns: findAndDMCommenters of dmManager.ts:159-364 (the   *)
(* commenters of a post) and of part_002 (the authors of mentions).  Both  *)
(* keep their own sentDMs, dailyDMs and lastDMResetDate in one file.       *)

Commenters == 1..NumCommenters

Commenter == "commenter"
Mention == "mention"
Variants == {Commenter, Mention}

\* commenters.size < 5 (dmManager.ts:303), commenters.size < 1 (part_002:142)
MaxCommenters(v) == IF v = Mention THEN 1 ELSE 5

\* the pause after a DM that went out: 2 s (dmManager.ts:329), 5 minutes
\* (part_002:167)
SendDelay(v) == IF v = Mention THEN 5 * 60 * 1000 ELSE 2000

NoLedger == [u \in Commenters |-> 0]

Campaign(s, d, r) == [sentDMs |-> s, dailyDMs |-> d, lastDMResetDate |-> r]
campaignState == Campaign(campaignSentDMs, campaignDailyDMs, lastDMResetDate)

MissingCampaign == [kind |-> "missing", mem |-> Campaign(NoLedger, 0, NoDate)]
OkCampaign(m) == [kind |-> "ok", mem |-> m]
CorruptCampaign(m) == [kind |-> "corrupt", mem |-> m]

\* saveSentDMs() of the batch modules: one JSON object with all three
\* fields; a failing write is logged and nothing else happens.
saveCampaign(file, m, wok) == IF wok THEN OkCampaign(m) ELSE file

\* loadSentDMs() of the batch modules.  The result is <<memory, file>>.
\* A file that does not parse leaves only sentDMs replaced.
loadCampaign(file, m, wok) ==
    CASE file.kind = "ok" -> <<file.mem, file>>
      [] file.kind = "missing" -> <<m, saveCampaign(file, m, wok)>>
      [] OTHER -> <<[m EXCEPT !.sentDMs = NoLedger], file>>

\* resetDailyDMsIfNeeded().  The result is <<memory, file>>.
resetDailyDMsIfNeeded(file, m, today, wok) ==
    IF m.lastDMResetDate # today
    THEN LET r == [m EXCEPT !.dailyDMs = 0, !.lastDMResetDate = today]
         IN  <<r, saveCampaign(file, r, wok)>>
    ELSE <<m, file>>

\* dailyDMs >= MAX_DMS_PER_DAY, at the head of the function and of every
\* turn of the send loop
limitReached_OffByOne(d) == d > MAX_DMS_PER_DAY

limitReached(d) == d >= MAX_DMS_PER_DAY

Range(s) == {s[i] : i \in 1..Len(s)}

\* The loop that fills the Set `commenters` from the replies, in order: an
\* author is added while the set is below its size limit, if the ledger
\* does not hold the author and, for mentions, the author is not the target
\* account itself.  A Set keeps insertion order and ignores a second add.
RECURSIVE collectCommenters(_, _, _, _, _)
collectCommenters(replies, acc, ledger, v, self) ==
    IF replies = <<>> THEN acc
    ELSE LET id == Head(replies)
             add == /\ id # NoUser
                    /\ Len(acc) < MaxCommenters(v)
                    /\ ledger[id] = 0
                    /\ (v = Mention => id # self)
                    /\ id \notin Range(acc)
         IN  collectCommenters(Tail(replies), IF add THEN Append(acc, id) ELSE acc,
                               ledger, v, self)

\* Position of one findAndDMCommenters() call.  alone says that no other
\* call has been open since this one began; base and ledger0 are dailyDMs
\* and the number of ledger entries when the function passed its reset,
\* kept for as long as the call is alone.
IdleBatch == [pc |-> "idle", cands |-> <<>>, cur |-> NoUser, wake |-> 0,
              base |-> 0, ledger0 |-> 0, alone |-> TRUE]

Contacts(m) == {u \in Commenters : m[u] # 0}

\* One turn of `for (const id of commenters)` up to its await: the loop
\* ends when no candidate is left or the limit is reached, otherwise
\* sendDmToParticipant is called for the next candidate.
nextTurn(p, cands, d) ==
    IF cands = <<>> \/ limitReached(d)
    THEN IdleBatch
    ELSE [p EXCEPT !.pc = "send", !.cur = Head(cands), !.cands = Tail(cands), !.wake = 0]

SetCampaign(m) ==
    /\ campaignSentDMs' = m.sentDMs
    /\ campaignDailyDMs' = m.dailyDMs
    /\ lastDMResetDate' = m.lastDMResetDate

Open(b) == batch[b].pc # "idle"

\* startDMCampaign(0) as attemptDM calls it (part_001:79), from the timer
\* or from /send-dm: loadSentDMs(), then findAndDMCommenters() up to its
\* first request to Twitter.  Nothing keeps a second call from starting
\* while one is open.
StartBatch(b) ==
    /\ ~Open(b)
    /\ \E wokL \in BOOLEAN, wokR \in BOOLEAN, targets \in BOOLEAN :
        LET l == loadCampaign(campaignFile, campaignState, wokL)
            r == resetDailyDMsIfNeeded(l[2], l[1], DateOf(now), wokR)
            m == r[1]
            failed == (IF wokL THEN 0 ELSE 1) + (IF wokR THEN 0 ELSE 1)
            others == {o \in Triggers \ {b} : Open(o)}
            goes == ~limitReached(m.dailyDMs) /\ targets
        IN  /\ (campaignFile.kind # "missing" => wokL)
            /\ (l[1].lastDMResetDate = DateOf(now) => wokR)
            /\ (limitReached(m.dailyDMs) => targets)
            /\ writeFailures + restarts + failed <= MaxFaults
            /\ writeFailures' = writeFailures + failed
            /\ SetCampaign(m)
            /\ campaignFile' = r[2]
            /\ batch' = [o \in Triggers |->
                           IF o = b
                           THEN IF goes
                                THEN IF others = {}
                                     THEN [IdleBatch EXCEPT
                                             !.pc = "lookup",
                                             !.base = m.dailyDMs,
                                             !.ledger0 = Cardinality(Contacts(m.sentDMs))]
                                     ELSE [IdleBatch EXCEPT !.pc = "lookup", !.alone = FALSE]
                                ELSE IdleBatch
                           ELSE IF Open(o)
                                THEN [batch[o] EXCEPT !.alone = FALSE, !.base = 0, !.ledger0 = 0]
                                ELSE batch[o]]
            /\ ev' = Ev("findAndDMCommenters", b,
                        IF limitReached(m.dailyDMs) THEN "LimitReached"
                        ELSE IF targets THEN "Started" ELSE "NoTargets",
                        wokL /\ wokR, m.dailyDMs)
    /\ UNCHANGED <<now, variant, attemptVars, rlVars, advances, restarts>>

\* What the first request answers: the account's recent posts
\* (dmManager.ts:272) or the account itself (part_002:114).
LookupResults == {"data", "nodata", "throw"}

LookupDone(b) ==
    /\ batch[b].pc = "lookup"
    /\ \E res \in LookupResults :
        /\ batch' = [batch EXCEPT ![b] = IF res = "data" THEN [@ EXCEPT !.pc = "replies"]
                                         ELSE IdleBatch]
        /\ ev' = Ev("lookup", b, res, TRUE, NoInfo)
    /\ UNCHANGED <<now, variant, campaignSentDMs, campaignDailyDMs, lastDMResetDate,
                   campaignFile, schedVars, rlVars, advances, restarts>>

\* The author ids of the replies (dmManager.ts:288) or of the mentions
\* (part_002:124); NoUser is an entry without author_id.
RECURSIVE ReplyListsOfLen(_)
ReplyListsOfLen(n) ==
    IF n = 0 THEN {<<>>}
    ELSE {Append(s, id) : s \in ReplyListsOfLen(n - 1), id \in Commenters \cup {NoUser}}

\* An empty page or a full one.
ReplyLists == {<<>>} \cup ReplyListsOfLen(MaxReplies)

\* The target account can be among the authors of its mentions.
Targets(v) == IF v = Mention THEN Commenters \cup {NoUser} ELSE {NoUser}

\* The second request answers: the candidates are collected and the send
\* loop runs up to its first sendDmToParticipant.
RepliesDone(b) ==
    /\ batch[b].pc = "replies"
    /\ \/ /\ batch' = [batch EXCEPT ![b] = IdleBatch]
          /\ ev' = Ev("replies", b, "throw", TRUE, NoInfo)
       \/ \E cands \in {collectCommenters(replies, <<>>, campaignSentDMs, variant, self) :
                            replies \in ReplyLists, self \in Targets(variant)} :
            /\ batch' = [batch EXCEPT ![b] = nextTurn(@, cands, campaignDailyDMs)]
            /\ ev' = Ev("replies", b, "data", TRUE, Len(cands))
    /\ UNCHANGED <<now, variant, campaignSentDMs, campaignDailyDMs, lastDMResetDate,
                   campaignFile, schedVars, rlVars, advances, restarts>>

\* sendDmToParticipant answers.  It went out: the ledger entry, the
\* counter and the file are written and the pause begins.  It threw: the
\* catch logs and the loop goes on with the next candidate.
BatchSendDone(b) ==
    /\ batch[b].pc = "send"
    /\ \E sent \in BOOLEAN, wok \in BOOLEAN :
        LET u == batch[b].cur
            m == [campaignState EXCEPT !.sentDMs[u] = now, !.dailyDMs = @ + 1]
        IN  /\ (~sent => wok)
            /\ CanFail(wok)
            /\ writeFailures' = Failed(wok)
            /\ ev' = Ev("sendDmToParticipant", b, IF sent THEN "sent" ELSE "failed", wok, u)
            /\ IF sent
               THEN /\ SetCampaign(m)
                    /\ campaignFile' = saveCampaign(campaignFile, m, wok)
                    /\ batch' = [batch EXCEPT ![b].pc = "pause", ![b].cur = NoUser,
                                              ![b].wake = now + SendDelay(variant)]
               ELSE /\ batch' = [batch EXCEPT ![b] = nextTurn(@, @.cands, campaignDailyDMs)]
                    /\ UNCHANGED <<campaignSentDMs, campaignDailyDMs, lastDMResetDate,
                                   campaignFile>>
    /\ UNCHANGED <<now, variant, attemptVars, rlVars, advances, restarts>>

\* The pause is over and the loop takes its next turn.
PauseDone(b) ==
    /\ batch[b].pc = "pause"
    /\ now >= batch[b].wake
    /\ batch' = [batch EXCEPT ![b] = nextTurn(@, @.cands, campaignDailyDMs)]
    /\ ev' = Ev("pause", b, "", TRUE, NoInfo)
    /\ UNCHANGED <<now, variant, campaignSentDMs, campaignDailyDMs, lastDMResetDate,
                   campaignFile, schedVars, rlVars, advances, restarts>>

----------------------------------------------------------------------------
(* Specifications *)

\* The stores a previous run can have left behind at process start.
InitStateFiles ==
    {MissingState,
     OkState(StartTime - DM_INTERVAL, DMS_PER_DAY_TARGET - 1, DateOf(StartTime)),
     OkState(StartTime - DM_INTERVAL, DMS_PER_DAY_TARGET, DateOf(StartTime))}

\* A first run finds neither file; a later run finds both.
InitSentFile(sf) == IF sf.kind = "missing" THEN MissingSent ELSE OkSent(NoSent)

InitCommon ==
    /\ now = StartTime
    /\ LET m == loadState(stateFile)
       IN  /\ lastDMTime = m.lastDMTime
           /\ dailyDMs = m.dailyDMs
           /\ lastResetDate = m.lastResetDate
    /\ sentDMs = NoSent
    /\ att = [a \in Triggers |-> Idle]
    /\ timerDue = NoTimer
    /\ LET h == rlConstruct(DateOf(StartTime))
       IN  /\ monthlyCapExceeded = h.monthlyCapExceeded
           /\ monthlyCapResetTime = h.monthlyCapResetTime
           /\ dailyReadAttempts = h.dailyReadAttempts
           /\ rlLastResetDate = h.lastResetDate
           /\ maxDailyReadAttempts = h.maxDailyReadAttempts
    /\ ev = Ev("main", Main, "", TRUE, NoInfo)
    /\ sendCount = [u \in Users |-> 0]
    /\ resetDone = {}
    /\ capPending = FALSE
    /\ capT = 0
    /\ advances = 0
    /\ restarts = 0
    /\ writeFailures = 0

\* No batch campaign is deployed or running.
InitNoCampaign ==
    /\ variant = Commenter
    /\ campaignSentDMs = NoLedger
    /\ campaignDailyDMs = 0
    /\ lastDMResetDate = NoDate
    /\ campaignFile = MissingCampaign
    /\ batch = [b \in Triggers |-> IdleBatch]

Init ==
    /\ stateFile \in InitStateFiles
    /\ sentFile = InitSentFile(stateFile)
    /\ running = Main
    /\ InitCommon
    /\ InitNoCampaign

Next ==
    \/ \E a \in Triggers : AttemptDM(a)
    \/ \E a \in Triggers : StartDMCampaign(a)
    \/ \E a \in Triggers : GenerateDone(a)
    \/ \E a \in Triggers : SendDone(a)
    \/ \E a \in Triggers : RecordAction(a)
    \/ Reset
    \/ Advance
    \/ Restart
    \/ StopInWrite

Spec == Init /\ [][Next]_vars

\* The event loop runs every continuation that is ready, a timer that is
\* due fires, and every call to OpenAI or Twitter answers or fails in the
\* end.  Requests to /send-dm and /reset, process stops and the passing of
\* time are not forced.
Fairness ==
    /\ WF_vars(AttemptDM(Timer))
    /\ \A a \in Triggers :
        /\ WF_vars(StartDMCampaign(a))
        /\ WF_vars(GenerateDone(a))
        /\ WF_vars(SendDone(a))
        /\ WF_vars(RecordAction(a))

\* The scheduler with both triggers and with process stops between and
\* inside callbacks.  Left out are the steps that only change what the
\* checks read: /reset (dailyDMs) and a stop inside a write (the files).
NextLive ==
    \/ \E a \in Triggers : AttemptDM(a)
    \/ \E a \in Triggers : StartDMCampaign(a)
    \/ \E a \in Triggers : GenerateDone(a)
    \/ \E a \in Triggers : SendDone(a)
    \/ \E a \in Triggers : RecordAction(a)
    \/ Advance
    \/ Restart

SpecLive == Init /\ [][NextLive]_vars /\ Fairness

\* What the event loop alone guarantees: continuations that are ready run
\* and a due timer fires.  Whether OpenAI or Twitter ever answer is up to
\* them: the awaits of dmManager.ts:80 and dmPlugin.ts:118 carry no timeout.
EventLoopFairness ==
    /\ WF_vars(AttemptDM(Timer))
    /\ \A a \in Triggers :
        /\ WF_vars(StartDMCampaign(a))
        /\ WF_vars(RecordAction(a))

SpecEventLoop == Init /\ [][NextLive]_vars /\ EventLoopFairness

\* The provider-cap tracker on its own.
InitRL ==
    /\ stateFile = MissingState
    /\ sentFile = MissingSent
    /\ running = Nobody
    /\ InitCommon
    /\ InitNoCampaign

NextRL ==
    \/ HandleTwitterError
    \/ CanMakeReadRequest
    \/ IncrementReadAttempts
    \/ GetStatus
    \/ SetMaxDailyReadAttempts
    \/ RestartRL
    \/ Advance

SpecRL == InitRL /\ [][NextRL]_vars

\* The campaign files a previous run can have left behind: none, one cut
\* short by a stop inside a write, and one written today with the counter
\* below, just below or at the limit.
InitCampaignFiles ==
    {MissingCampaign,
     CorruptCampaign(Campaign(NoLedger, 0, NoDate))}
    \cup {OkCampaign(Campaign(NoLedger, d, DateOf(StartTime))) :
            d \in {MAX_DMS_PER_DAY - 2, MAX_DMS_PER_DAY - 1, MAX_DMS_PER_DAY}}

\* A batch campaign on its own: the module-level variables have their
\* initial values (dmManager.ts:171-173) and the callers are idle.
InitBatch ==
    /\ stateFile = MissingState
    /\ sentFile = MissingSent
    /\ running = Nobody
    /\ InitCommon
    /\ variant \in Variants
    /\ campaignSentDMs = NoLedger
    /\ campaignDailyDMs = 0
    /\ lastDMResetDate = NoDate
    /\ campaignFile \in InitCampaignFiles
    /\ batch = [b \in Triggers |-> IdleBatch]

NextBatch ==
    \/ \E b \in Triggers : StartBatch(b)
    \/ \E b \in Triggers : LookupDone(b)
    \/ \E b \in Triggers : RepliesDone(b)
    \/ \E b \in Triggers : BatchSendDone(b)
    \/ \E b \in Triggers : PauseDone(b)
    \/ Advance

SpecBatch == InitBatch /\ [][NextBatch]_vars

----------------------------------------------------------------------------
(* Claims *)

InFlight == {a \in Triggers : att[a].pc # "idle"}

\* C1: at most one attemptDM() is in flight at any time; a trigger that
\* arrives while another attempt is open does not start a second one.
C1_AtMostOneInFlight == Cardinality(InFlight) <= 1

\* C2: the external send succeeds at most once per recipient id, over all
\* interleavings of timer ticks and /send-dm requests and across restarts.
C2_NoRecipientSentTwice == \A u \in Users : sendCount[u] <= 1

\* C3: dailyDMs never exceeds DMS_PER_DAY_TARGET, also when a /send-dm
\* request races a timer tick.
C3_DailyQuotaNotExceeded == dailyDMs <= DMS_PER_DAY_TARGET

\* C4: every recorded action (dailyDMs++ with lastDMTime = Date.now()) lies
\* at least DM_INTERVAL after the recorded action before it; each was
\* preceded by an Allowed result of the spacing check.
C4_MonotonicSpacing ==
    [][ev'.op = "recordAction" =>
         (lastDMTime = 0 \/ lastDMTime' - lastDMTime >= DM_INTERVAL)]_vars

Today == DateOf(now)
TooSoonNow == now - lastDMTime < DM_INTERVAL

\* C5 as claimed: each recorded action adds one to dailyDMs; a check made
\* once dailyDMs has reached the target denies with DailyCapReached; the
\* first check on the next date allows.
C5_AsClaimed ==
    [][/\ (ev'.op = "recordAction" => dailyDMs' = dailyDMs + 1)
       /\ (ev'.op = "attemptDM" /\ dailyDMs' >= DMS_PER_DAY_TARGET =>
             ev'.result = "DailyCapReached")
       /\ (ev'.op = "attemptDM" /\ dailyDMs >= DMS_PER_DAY_TARGET
             /\ lastResetDate # Today => ev'.result = "Allowed")]_vars

\* C5 as amended: each recorded action adds one to dailyDMs.  A check made
\* while dailyDMs has reached the target denies: with TooSoon when the last
\* action is less than DM_INTERVAL ago (spacing is evaluated first), with
\* DailyCapReached otherwise.  The first check on a new date sets the count
\* to 0 and allows exactly when it is not TooSoon.
C5_DailyCap ==
    [][/\ (ev'.op = "recordAction" => dailyDMs' = dailyDMs + 1)
       /\ (ev'.op = "attemptDM" /\ dailyDMs' >= DMS_PER_DAY_TARGET =>
             ev'.result = IF TooSoonNow THEN "TooSoon" ELSE "DailyCapReached")
       /\ (ev'.op = "attemptDM" /\ dailyDMs >= DMS_PER_DAY_TARGET /\ lastResetDate # Today =>
             /\ dailyDMs' = 0
             /\ ev'.result = IF TooSoonNow THEN "TooSoon" ELSE "Allowed")]_vars

\* A check at the cap that is answered TooSoon.
C5_Witness ==
    /\ ev.op = "attemptDM"
    /\ ev.result = "TooSoon"
    /\ dailyDMs >= DMS_PER_DAY_TARGET
    /\ lastResetDate = Today

\* C6: a check made on a date other than lastResetDate sets dailyDMs to 0
\* and lastResetDate to that date and writes both to STATE_FILE before the
\* spacing and cap conditions are evaluated: the cap is evaluated against 0,
\* never against the old count.
C6_DateRollover ==
    [][ev'.op = "attemptDM" /\ lastResetDate # Today =>
         /\ dailyDMs' = 0
         /\ lastResetDate' = Today
         /\ ev'.info = dailyDMs
         /\ ev'.result # "DailyCapReached"
         /\ (ev'.wok => stateFile' = OkState(lastDMTime, 0, Today))]_vars

\* A check on the next date that discarded a count at the cap, allowed the
\* attempt and persisted the reset.
C6_Witness ==
    /\ ev.op = "attemptDM"
    /\ ev.info >= DMS_PER_DAY_TARGET
    /\ ev.result = "Allowed"
    /\ ev.wok
    /\ stateFile = OkState(lastDMTime, 0, Today)

\* C7: the lazy reset runs once per date: a check on a date other than
\* lastResetDate resets dailyDMs to 0; every later check of this process on
\* that date leaves dailyDMs and lastResetDate as they are; the completion
\* of an attempt, also of one begun on the previous date, adds one to the
\* count and does not reset it.
C7_ResetOncePerDate ==
    [][/\ (ev'.op = "attemptDM" /\ Today \in resetDone =>
             dailyDMs' = dailyDMs /\ lastResetDate' = lastResetDate /\ ev'.info = NoInfo)
       /\ (ev'.op = "attemptDM" /\ lastResetDate # Today =>
             dailyDMs' = 0 /\ lastResetDate' = Today /\ Today \notin resetDone)
       /\ (ev'.op = "recordAction" =>
             dailyDMs' = dailyDMs + 1 /\ lastResetDate' = lastResetDate)
       /\ (lastResetDate' # lastResetDate => ev'.op \in {"attemptDM", "restart"})]_vars

\* An attempt begun on the previous date completes after another trigger has
\* run the reset for the new date.
C7_Witness ==
    /\ ev.op = "recordAction"
    /\ DateOf(ev.info) < Today
    /\ Today \in resetDone
    /\ lastResetDate = Today
    /\ dailyDMs = 1

\* C8: once a provider cap is recorded with reset time T, every
\* canMakeReadRequest() before T denies for the monthly cap (reset time T);
\* the first one at or after T clears the flag and allows.
C8_MonthlyCap ==
    [][ev'.op = "canMakeReadRequest" /\ capPending =>
         IF SecOf(now) < capT
         THEN ev'.result = "MonthlyCapExceeded" /\ monthlyCapResetTime' = capT
         ELSE ev'.result = "Allowed" /\ ~monthlyCapExceeded']_vars

\* C9: monthlyCapExceeded goes from true to false only in a step taken at a
\* time at or after monthlyCapResetTime.
C9_CapClearedOnlyByTime ==
    [][monthlyCapExceeded /\ ~monthlyCapExceeded' => SecOf(now) >= monthlyCapResetTime]_vars

Contacted(m) == {u \in Users : m[u] # 0}

\* C10: an attempt that ends Skipped or Failed leaves dailyDMs, lastDMTime
\* and the recipient ledger as they were.
C10_OnlySentMutates ==
    [][/\ (ev'.op = "recordAction" /\ ev'.result # "Sent" =>
             dailyDMs' = dailyDMs /\ lastDMTime' = lastDMTime /\ sentDMs' = sentDMs)
       /\ (\A a \in Triggers :
             att[a].pc # "record" /\ att'[a].pc = "record" /\ att'[a].outcome # "Sent" =>
                 Contacted(sentFile'.map) = Contacted(sentFile.map))]_vars

\* C11: when an external call of an attempt fails with the provider's
\* usage-cap error, the cap is recorded before the attempt returns its
\* failure: monthlyCapExceeded is true and monthlyCapResetTime is the
\* provider's reset time.
C11_CapRecordedOnError ==
    [][ev'.op = "sendDone" /\ ev'.result = "UsageCapExceeded" =>
         monthlyCapExceeded' /\ monthlyCapResetTime' = ev'.info]_vars

\* C12: a /send-dm request runs an attempt also when the spacing check or
\* the daily check would deny, and runs none while monthlyCapExceeded is set
\* and the time is before monthlyCapResetTime.
C12_ManualBypass ==
    [][ev'.op = "attemptDM" /\ ev'.by = Manual =>
         IF monthlyCapExceeded /\ SecOf(now) < monthlyCapResetTime
         THEN att'[Manual].pc = "idle"
         ELSE att'[Manual].pc = "campaign"]_vars

\* No callback is running and no attempt is open.
Quiescent == running = Nobody /\ InFlight = {}

\* What the status shows: dailyDMs, the target, the cap fields, lastDMTime.
Snapshot ==
    <<dailyDMs, DMS_PER_DAY_TARGET, monthlyCapExceeded, monthlyCapResetTime, lastDMTime>>

\* C13: a restart from a quiescent state whose quota state has been written
\* to the store yields the same status snapshot as before the restart.
C13_IdempotentRestart ==
    [][/\ ev'.op = "restart"
       /\ Quiescent
       /\ loadState(stateFile) = Mem(lastDMTime, dailyDMs, lastResetDate)
       => Snapshot' = Snapshot]_vars

\* The quota state and the ledger a new process would load from the store.
StoredQuota ==
    LET m == loadState(stateFile)
        h == rlConstruct(Today)
    IN  <<m.dailyDMs, m.lastResetDate, m.lastDMTime, h.monthlyCapExceeded,
          h.monthlyCapResetTime>>
MemQuota ==
    <<dailyDMs, lastResetDate, lastDMTime, monthlyCapExceeded, monthlyCapResetTime>>
StoredLedger == IF sentFile.kind = "ok" THEN sentFile.map ELSE NoSent

\* C14: whenever no operation is in progress and no write has failed, the
\* stored quota state equals the one in memory (counter, reset date, last
\* action time, cap fields) and the stored ledger equals the one in memory.
C14_WriteThrough ==
    Quiescent /\ writeFailures = 0 => StoredQuota = MemQuota /\ StoredLedger = sentDMs

\* Recipients recorded by an attempt that has completed.
CompletedRecipients ==
    {u \in Contacted(sentDMs) :
        \A a \in InFlight :
            ~(att[a].user = u /\ att[a].pc = "record" /\ att[a].outcome = "Sent")}

\* C15: when the process stops at any point and is restarted from the store
\* (no write having failed before), the restored dailyDMs counts every
\* action completed before the stop and the restored ledger holds every
\* recipient of a completed attempt.
C15_CrashLosesAtMostInFlight ==
    [][ev'.op = "restart" /\ writeFailures = 0 =>
         /\ dailyDMs' >= dailyDMs
         /\ CompletedRecipients \subseteq Contacted(StoredLedger')]_vars

\* C16: a failed write does not undo the mutation in memory: the counters
\* keep the values of the action whose write failed, the ledger keeps the
\* recipient whose write failed, and the running process never drops a
\* recipient from its in-memory ledger afterwards.
C16_NoRollbackOnWriteFailure ==
    [][/\ (ev'.op = "recordAction" /\ ~ev'.wok =>
             dailyDMs' = dailyDMs + 1 /\ lastDMTime' = now)
       /\ (ev'.op = "sendDone" /\ ev'.result = "data" /\ ~ev'.wok =>
             sentDMs'[att[ev'.by].user] = now)
       /\ (ev'.op # "restart" => Contacted(sentDMs) \subseteq Contacted(sentDMs'))]_vars

\* C17: loading never fails.  A process started on a missing or corrupt
\* STATE_FILE runs with the default state (lastDMTime 0, dailyDMs 0, no
\* reset date), an empty in-memory ledger and its scheduler started.  A
\* campaign that finds SENT_DMS_FILE corrupt continues with the empty
\* ledger; one that finds it missing continues with the ledger in memory,
\* which is the empty one at start.
C17_LoadingNeverFails ==
    [][/\ (ev'.op = "restart" =>
             /\ running' = Main
             /\ sentDMs' = NoSent
             /\ (stateFile'.kind # "ok" =>
                   Mem(lastDMTime', dailyDMs', lastResetDate') = Mem(0, 0, NoDate)))
       /\ (ev'.op = "startDMCampaign" =>
             /\ att'[ev'.by].pc \in {"generate", "record"}
             /\ (sentFile.kind = "corrupt" => sentDMs' = NoSent)
             /\ (sentFile.kind = "missing" => sentDMs' = sentDMs))]_vars

\* A process started on a STATE_FILE that was cut short while it recorded a
\* count at the target.
C17_Witness ==
    /\ ev.op = "restart"
    /\ stateFile.kind = "corrupt"
    /\ stateFile.dailyDMs >= DMS_PER_DAY_TARGET
    /\ dailyDMs = 0
    /\ running = Main

\* C18: recording a recipient that is already in the ledger does not
\* succeed: the stored contact instant stays as it was.
C18_DefensiveDedup ==
    [][ev'.op = "sendDone" /\ ev'.result = "data" =>
         LET u == att[ev'.by].user
         IN  sentDMs[u] # 0 => sentDMs'[u] = sentDMs[u]]_vars

\* C19: the scheduler does not re-enter.  A timer tick starts only while no
\* attempt of an earlier tick is open; while a tick's attempt is open no
\* timer is pending; the next timer is set only by a step of the timer's own
\* attempt that leaves it complete.
C19_NoReentry ==
    [][/\ (ev'.op = "attemptDM" /\ ev'.by = Timer => att[Timer].pc = "idle")
       /\ (att'[Timer].pc # "idle" => timerDue' = NoTimer)
       /\ (timerDue' # NoTimer /\ timerDue' # timerDue =>
             /\ ev'.by = Timer
             /\ ev'.op \in {"attemptDM", "recordAction"}
             /\ att'[Timer].pc = "idle")]_vars

\* A tick's attempt is still waiting for the network a full tick period
\* after it started, and no timer is pending.
C19_Witness ==
    /\ att[Timer].pc \in {"generate", "send"}
    /\ now - att[Timer].started >= TICK_PERIOD
    /\ timerDue = NoTimer

C21_AttemptsComplete ==
    \A a \in Triggers : (att[a].pc # "idle" ~> att[a].pc = "idle")

\* C22: a /reset request sets dailyDMs to 0 and writes it to STATE_FILE
\* (when the write succeeds), and leaves lastDMTime, lastResetDate, the
\* monthly-cap fields and the ledger, in memory and on file, as they were.
C22_ResetFrame ==
    [][ev'.op = "reset" =>
         /\ dailyDMs' = 0
         /\ (ev'.wok => stateFile' = OkState(lastDMTime, 0, lastResetDate))
         /\ (~ev'.wok => stateFile' = stateFile)
         /\ UNCHANGED <<lastDMTime, lastResetDate, monthlyCapExceeded, monthlyCapResetTime,
                        sentDMs, sentFile>>]_vars

\* A reset that cleared a count at the target, with a recipient in the
\* ledger, and was written to the file.
C22_Witness ==
    /\ ev.op = "reset"
    /\ ev.info >= DMS_PER_DAY_TARGET
    /\ ev.wok
    /\ dailyDMs = 0
    /\ stateFile = OkState(lastDMTime, 0, lastResetDate)
    /\ Contacted(sentDMs) # {}

\* C23: the check evaluates its conditions in a fixed order and reports the
\* first that holds: the monthly cap, then TooSoon, then DailyCapReached; it
\* allows exactly when none holds; and a TooSoon denial gives the instant
\* lastDMTime + DM_INTERVAL as the time to retry.
C23_CheckOrder ==
    [][ev'.op = "attemptDM" =>
         /\ ev'.result =
               IF monthlyCapExceeded /\ SecOf(now) < monthlyCapResetTime
               THEN "MonthlyCapExceeded"
               ELSE IF TooSoonNow THEN "TooSoon"
               ELSE IF dailyDMs' >= DMS_PER_DAY_TARGET THEN "DailyCapReached"
               ELSE "Allowed"
         /\ (ev'.result = "TooSoon" =>
               now + ev'.retry * 60000 = lastDMTime + DM_INTERVAL)]_vars

\* The spacing the comment on DM_INTERVAL names: 24 minutes.
DOCUMENTED_DM_INTERVAL == 24 * 60 * 1000

\* C24: with a target of 30 and a spacing of 24 minutes, every check made
\* less than 24 minutes after a recorded action denies with TooSoon, and a
\* check 25 minutes or more after it allows (the count being under the
\* target).
C24_Spacing24Minutes ==
    [][ev'.op = "attemptDM" /\ lastDMTime > 0 /\ now > lastDMTime =>
         /\ (now - lastDMTime < DOCUMENTED_DM_INTERVAL => ev'.result = "TooSoon")
         /\ (now - lastDMTime >= DOCUMENTED_DM_INTERVAL + 60000
               /\ dailyDMs' < DMS_PER_DAY_TARGET => ev'.result = "Allowed")]_vars

ValidLength(len) == MIN_DM_LENGTH <= len /\ len <= MAX_DM_LENGTH

\* C25: sendDmToParticipant is called only with a text of at least 10 and at
\* most 10000 characters.  An attempt goes on to the send exactly when the
\* generated text has such a length; otherwise it ends Skipped or Failed
\* with no DM sent and no recipient recorded.  A DM goes out only for an
\* attempt that went on to the send.
C25_ValidContentOnly ==
    [][/\ (ev'.op = "generateDone" /\ ev'.result # "GenerationFailed" =>
             IF ValidLength(ev'.info)
             THEN att'[ev'.by].pc = "send"
             ELSE /\ att'[ev'.by].pc = "record"
                  /\ att'[ev'.by].outcome \in {"Skipped", "Failed"}
                  /\ UNCHANGED <<sentDMs, sentFile, sendCount>>)
       /\ (\A a \in Triggers :
             att'[a].pc = "send" /\ att[a].pc # "send" =>
                 ev'.op = "generateDone" /\ ev'.by = a /\ ValidLength(ev'.info))
       /\ (\A u \in Users :
             sendCount'[u] # sendCount[u] =>
                 \E a \in Triggers : att[a].pc = "send" /\ att[a].user = u)]_vars

\* A generated text one character over the limit ended the attempt as
\* Failed, with nothing sent.
C25_Witness ==
    /\ ev.op = "generateDone"
    /\ ev.info = MAX_DM_LENGTH + 1
    /\ att[ev.by].pc = "record"
    /\ att[ev.by].outcome = "Failed"
    /\ sendCount[att[ev.by].user] = 0

\* C26: in the batch campaigns the ledger and the daily counter move
\* together.  A send that went out adds its recipient, and nothing else, to
\* sentDMs and raises dailyDMs by exactly 1 in the same step; a send that
\* failed changes neither, and the loop goes on with the next candidate
\* unless none is left or the limit is reached; a send is only issued while
\* dailyDMs is below MAX_DMS_PER_DAY.  Hence, while a batch runs with no
\* other batch started beside it, the ledger entries added since it began
\* equal the rise of dailyDMs, and dailyDMs is at most MAX_DMS_PER_DAY.
C26_LedgerAndCounterTogether ==
    /\ [][ev'.op = "sendDmToParticipant" =>
            LET b == ev'.by
                u == ev'.info
            IN  /\ batch[b].pc = "send" /\ batch[b].cur = u
                /\ ev'.result = "sent" =>
                     /\ campaignSentDMs'[u] # 0
                     /\ \A w \in Commenters \ {u} : campaignSentDMs'[w] = campaignSentDMs[w]
                     /\ campaignDailyDMs' = campaignDailyDMs + 1
                /\ ev'.result = "failed" =>
                     /\ UNCHANGED <<campaignSentDMs, campaignDailyDMs>>
                     /\ IF batch[b].cands = <<>> \/ campaignDailyDMs >= MAX_DMS_PER_DAY
                        THEN batch'[b].pc = "idle"
                        ELSE batch'[b].pc = "send" /\ batch'[b].cur = Head(batch[b].cands)]_vars
    /\ [][\A b \in Triggers :
            (ev'.by = b /\ ev'.op \in {"replies", "pause", "sendDmToParticipant"}
                /\ batch'[b].pc = "send")
            => campaignDailyDMs' < MAX_DMS_PER_DAY]_vars
    /\ [](\A b \in Triggers :
            (Open(b) /\ batch[b].alone) =>
                /\ Cardinality(Contacts(campaignSentDMs)) - batch[b].ledger0
                     = campaignDailyDMs - batch[b].base
                /\ campaignDailyDMs <= MAX_DMS_PER_DAY)

\* C26 witness: a batch that ran alone has sent two DMs, one after the
\* other, and the second one brought dailyDMs to MAX_DMS_PER_DAY.
C26_Witness ==
    /\ ev.op = "sendDmToParticipant"
    /\ ev.result = "sent"
    /\ batch[ev.by].alone
    /\ campaignDailyDMs = MAX_DMS_PER_DAY
    /\ campaignDailyDMs - batch[ev.by].base = 2
    /\ Cardinality(Contacts(campaignSentDMs)) - batch[ev.by].ledger0 = 2
====
